---- MODULE Spec2Model ----
(***************************************************************************)
(* A model of fundwarrior's fund storage: libfund's FundManager (an        *)
(* in-memory HashMap<String, Fund>), its load/save against the fund file,  *)
(* and its name-indexed operations.                                        *)
(*                                                                         *)
(* Text is modelled character by character: a string is a sequence of      *)
(* one-character strings, the fund file is the sequence of its characters, *)
(* and format!/parse/lines/split_terminator are computed on them.          *)
(***************************************************************************)
EXTENDS Integers, Sequences, FiniteSets

VARIABLES
    file,    \* the fund file on disk: [exists, bytes]
    funds,   \* FundManager.funds of the manager in memory: name -> Fund
    last,    \* the last call made on the library and what it returned
    saved,   \* <<m>>: m was FundManager.funds at the last successful save; <<>> before
    pc,      \* position in the process run cycle ("lib": free use of the library)
    self_fund, \* a Fund value on its own, as deposit, spend and display act on it
    trial    \* the inputs a Fund on its own is tried with: [start, x, overflow_checks]

vars == <<file, funds, last, saved, pc, self_fund, trial>>

-----------------------------------------------------------------------------
(* Bounds of the model *)

\* deposit/spend are applied only while the amount stays within -MaxAmount..MaxAmount
MaxAmount == 100
\* the longest iterator handed to extend
MaxExtend == 2
\* the longest file content enumerated for load alone
MaxFileLen == 6
\* the most lines of a file put together from whole lines
MaxLines == 3
\* the most funds the command-line manager's vector holds
MaxFunds == 2
\* a Fund on its own starts with an amount in -MaxShown..MaxShown, or at an end of i32
MaxShown == 120

-----------------------------------------------------------------------------
(* Characters and strings *)

NL == "\n"
COLON == ":"

Digits == <<"0", "1", "2", "3", "4", "5", "6", "7", "8", "9">>

IsDigit(c) == \E i \in 1..10 : Digits[i] = c

DigitVal(c) == (CHOOSE i \in 1..10 : Digits[i] = c) - 1

I32Max == 2147483647

I32Min == (0 - I32Max) - 1

\* the decimal digits of a non-negative number
RECURSIVE NatToString(_)
NatToString(n) ==
    IF n < 10 THEN <<Digits[n + 1]>>
    ELSE NatToString(n \div 10) \o <<Digits[(n % 10) + 1]>>

\* the decimal digits of the magnitude of a negative number, i32::MIN included
RECURSIVE NegToString(_)
NegToString(n) ==
    LET d == (10 - (n % 10)) % 10
    IN  IF n > 0 - 10 THEN <<Digits[(0 - n) + 1]>>
        ELSE NegToString((n + d) \div 10) \o <<Digits[d + 1]>>

\* i32::to_string, as format!("{}") prints amount and goal
I32ToString(n) == IF n < 0 THEN <<"-">> \o NegToString(n) ELSE NatToString(n)

\* the value of a digit string added up from acc, or -1 once it exceeds i32::MAX
RECURSIVE DigitsValue(_, _)
DigitsValue(s, acc) ==
    IF s = <<>> THEN acc
    ELSE IF acc > (I32Max - DigitVal(Head(s))) \div 10 THEN -1
    ELSE DigitsValue(Tail(s), acc * 10 + DigitVal(Head(s)))

\* the value of a digit string subtracted from acc, or 1 once it goes below i32::MIN
RECURSIVE DigitsValueNeg(_, _)
DigitsValueNeg(s, acc) ==
    IF s = <<>> THEN acc
    ELSE IF acc < (I32Min + DigitVal(Head(s)) + 9) \div 10 THEN 1
    ELSE DigitsValueNeg(Tail(s), acc * 10 - DigitVal(Head(s)))

\* str::parse::<i32>: an optional sign, then one or more digits, within range
ParseI32(s) ==
    LET signed == s # <<>> /\ Head(s) \in {"-", "+"}
        negative == signed /\ Head(s) = "-"
        body == IF signed THEN Tail(s) ELSE s
        val == IF negative THEN DigitsValueNeg(body, 0) ELSE DigitsValue(body, 0)
    IN  IF body = <<>> \/ \E i \in 1..Len(body) : ~IsDigit(body[i])
        THEN [ok |-> FALSE, val |-> 0]
        ELSE IF (negative /\ val > 0) \/ (~negative /\ val < 0)
        THEN [ok |-> FALSE, val |-> 0]
        ELSE [ok |-> TRUE, val |-> val]

\* str::split: the pieces of s between occurrences of sep
RECURSIVE Split(_, _)
Split(s, sep) ==
    IF \A i \in 1..Len(s) : s[i] # sep THEN <<s>>
    ELSE LET i == CHOOSE k \in 1..Len(s) : s[k] = sep /\ \A j \in 1..(k - 1) : s[j] # sep
         IN  <<SubSeq(s, 1, i - 1)>> \o Split(SubSeq(s, i + 1, Len(s)), sep)

\* str::split_terminator: as split, but a trailing empty piece is skipped
SplitTerminator(s, sep) ==
    LET ps == Split(s, sep)
    IN  IF ps[Len(ps)] = <<>> THEN SubSeq(ps, 1, Len(ps) - 1) ELSE ps

\* BufRead::lines: the lines of the file without their newline
Lines(bytes) == SplitTerminator(bytes, NL)

-----------------------------------------------------------------------------
(* Fund and the name -> Fund map *)

\* Fund::new().with_amount(a).with_goal(g).build()
Fund(a, g) == [amount |-> a, goal |-> g]

EmptyMap == [n \in {} |-> Fund(0, 0)]

\* HashMap::insert
Insert(m, name, fund) ==
    [n \in (DOMAIN m) \cup {name} |-> IF n = name THEN fund ELSE m[n]]

\* HashMap::remove
Remove(m, name) == [n \in (DOMAIN m) \ {name} |-> m[n]]

(* Results of calls: kind is "Ok" or the error; name is the name an error
   carries; val is the fund a lookup returns (<<>> when none). *)
Res(kind, name, val) == [kind |-> kind, name |-> name, val |-> val]

Ok == Res("Ok", <<>>, <<>>)

FundNotFound(name) == Res("FundNotFound", name, <<>>)

DuplicateFund(name) == Res("DuplicateFund", name, <<>>)

InvalidData == Res("InvalidData", <<>>, <<>>)

-----------------------------------------------------------------------------
(* FundManager::load *)

BadLine == [ok |-> FALSE, name |-> <<>>, fund |-> Fund(0, 0)]

\* LineFund with a goal that does not parse read as 0 instead of ending the load
LineFundGoalDefault(line) ==
    LET fund_info == SplitTerminator(line, COLON)
    IN  IF Len(fund_info) < 3 THEN BadLine
        ELSE LET amount == ParseI32(fund_info[2])
                 goal == ParseI32(fund_info[3])
             IN  IF ~amount.ok THEN BadLine
                 ELSE [ok |-> TRUE, name |-> fund_info[1],
                       fund |-> Fund(amount.val, IF goal.ok THEN goal.val ELSE 0)]

\* the body of load's loop for one line: split, the field count, the three parses
LineFund(line) ==
    LET fund_info == SplitTerminator(line, COLON)
    IN  IF Len(fund_info) < 3 THEN BadLine
        ELSE LET amount == ParseI32(fund_info[2])
                 goal == ParseI32(fund_info[3])
             IN  IF ~amount.ok THEN BadLine
                 ELSE IF ~goal.ok THEN BadLine
                 ELSE [ok |-> TRUE, name |-> fund_info[1],
                       fund |-> Fund(amount.val, goal.val)]

\* load's loop: the vector of (name, fund) pushed so far, or the first error
RECURSIVE LoadVec(_, _)
LoadVec(lines, vec) ==
    IF lines = <<>> THEN [ok |-> TRUE, vec |-> vec]
    ELSE LET lf == LineFund(Head(lines))
         IN  IF ~lf.ok THEN [ok |-> FALSE, vec |-> vec]
             ELSE LoadVec(Tail(lines), Append(vec, <<lf.name, lf.fund>>))

\* from_iter with a name already collected kept (entry().or_insert) instead of replaced
RECURSIVE FromIterKeepsFirst(_, _)
FromIterKeepsFirst(iter, m) ==
    IF iter = <<>> THEN m
    ELSE FromIterKeepsFirst(Tail(iter),
             IF Head(iter)[1] \in DOMAIN m THEN m ELSE Insert(m, Head(iter)[1], Head(iter)[2]))

\* FromIterator for FundManager: insert each pair in turn
RECURSIVE FromIter(_, _)
FromIter(iter, m) ==
    IF iter = <<>> THEN m
    ELSE FromIter(Tail(iter), Insert(m, Head(iter)[1], Head(iter)[2]))

\* what load returns for a file holding bytes
LoadResult(bytes) ==
    LET r == LoadVec(Lines(bytes), <<>>)
    IN  IF r.ok THEN [res |-> Ok, funds |-> FromIter(r.vec, EmptyMap)]
        ELSE [res |-> InvalidData, funds |-> EmptyMap]

-----------------------------------------------------------------------------
(* FundManager::save *)

\* the orders in which iterating the HashMap can yield its entries
Orders(m) ==
    {o \in [1..Cardinality(DOMAIN m) -> DOMAIN m] :
        \A i, j \in 1..Cardinality(DOMAIN m) : o[i] = o[j] => i = j}

\* format!("{}:{}:{}\n", name, amount, goal)
FundLine(name, fund) ==
    name \o <<COLON>> \o I32ToString(fund.amount) \o <<COLON>>
         \o I32ToString(fund.goal) \o <<NL>>

\* everything the loop of save writes, in iteration order
RECURSIVE Written(_, _)
Written(m, order) ==
    IF order = <<>> THEN <<>>
    ELSE FundLine(Head(order), m[Head(order)]) \o Written(m, Tail(order))

\* the file after save: opened with write(true).create(true), written from offset 0
SaveBytes(old, m, order) ==
    LET w == Written(m, order)
    IN  w \o SubSeq(old, Len(w) + 1, Len(old))

-----------------------------------------------------------------------------
(* FundManager: lookups and mutations. Each call gives the map after it and
   what it returned. *)

Outcome(m, res) == [funds |-> m, res |-> res]

\* FundManager::fund
FundCall(m, name) ==
    IF name \in DOMAIN m THEN Outcome(m, Res("Ok", <<>>, <<m[name]>>))
    ELSE Outcome(m, FundNotFound(name))

\* fund_mut with a missing name given a default entry (entry().or_insert) instead
FundMutCallOrInsert(m, name) ==
    IF name \in DOMAIN m THEN Outcome(m, Res("Ok", <<>>, <<m[name]>>))
    ELSE Outcome(Insert(m, name, Fund(0, 0)), Res("Ok", <<>>, <<Fund(0, 0)>>))

\* FundManager::fund_mut
FundMutCall(m, name) ==
    IF name \in DOMAIN m THEN Outcome(m, Res("Ok", <<>>, <<m[name]>>))
    ELSE Outcome(m, FundNotFound(name))

\* add_fund without its contains_key check: a plain HashMap::insert
AddFundCallOverwrite(m, name, fund) == Outcome(Insert(m, name, fund), Ok)

\* FundManager::add_fund
AddFundCall(m, name, fund) ==
    IF name \in DOMAIN m THEN Outcome(m, DuplicateFund(name))
    ELSE Outcome(Insert(m, name, fund), Ok)

\* rename with the entry read (get) but not removed from under old_name
RenameCallKeepsOld(m, old_name, new_name) ==
    IF old_name \in DOMAIN m
    THEN AddFundCall(m, new_name, m[old_name])
    ELSE Outcome(m, FundNotFound(old_name))

\* FundManager::rename: remove old_name first, then add_fund under new_name
RenameCall(m, old_name, new_name) ==
    IF old_name \in DOMAIN m
    THEN AddFundCall(Remove(m, old_name), new_name, m[old_name])
    ELSE Outcome(m, FundNotFound(old_name))

\* Fund::deposit (the steps below keep every amount within -MaxAmount..MaxAmount,
\* where the addition cannot leave the i32 range)
FundDeposit(fund, amount) == [fund EXCEPT !.amount = @ + amount]

\* Fund::spend
FundSpend(fund, amount) == [fund EXCEPT !.amount = @ - amount]

\* a deposit that reaches every fund of the manager instead of the one named
DepositCallEvery(m, name, amount) ==
    LET r == FundMutCall(m, name)
    IN  IF r.res.kind = "Ok"
        THEN Outcome([n \in DOMAIN m |-> FundDeposit(m[n], amount)], Ok)
        ELSE r

\* funds.fund_mut(name)?.deposit(amount)
DepositCall(m, name, amount) ==
    LET r == FundMutCall(m, name)
    IN  IF r.res.kind = "Ok"
        THEN Outcome([r.funds EXCEPT ![name] = FundDeposit(@, amount)], Ok)
        ELSE r

\* funds.fund_mut(name)?.spend(amount)
SpendCall(m, name, amount) ==
    LET r == FundMutCall(m, name)
    IN  IF r.res.kind = "Ok"
        THEN Outcome([r.funds EXCEPT ![name] = FundSpend(@, amount)], Ok)
        ELSE r

\* extend's loop body without its contains_key check: the incoming fund replaces
ExtendOneOverwrite(m, item) == Outcome(Insert(m, item[1], item[2]), Ok)

\* extend's loop body without its contains_key check: add_fund(..).unwrap() alone
ExtendOneUnchecked(m, item) ==
    LET r == AddFundCall(m, item[1], item[2])
    IN  IF r.res.kind = "Ok" THEN r ELSE Outcome(r.funds, Res("Panic", item[1], <<>>))

\* the body of extend's loop for one (name, fund): add it unless the name is there
ExtendOne(m, item) ==
    IF item[1] \notin DOMAIN m
    THEN LET r == AddFundCall(m, item[1], item[2])
         IN  IF r.res.kind = "Ok" THEN r ELSE Outcome(r.funds, Res("Panic", item[1], <<>>))
    ELSE Outcome(m, Ok)

\* Extend for FundManager: the loop over the iterator; an unwrap that fails ends it
RECURSIVE ExtendCall(_, _)
ExtendCall(m, iter) ==
    IF iter = <<>> THEN Outcome(m, Ok)
    ELSE LET r == ExtendOne(m, Head(iter))
         IN  IF r.res.kind = "Ok" THEN ExtendCall(r.funds, Tail(iter)) ELSE r

-----------------------------------------------------------------------------
(* The inputs enumerated *)

Names == {<<"a">>, <<"b", "b">>, <<"c">>}

\* the funds handed to add_fund
NewFunds == {Fund(5, 20)}

\* the amounts deposited and spent
Amounts == {95}

\* the names and funds used in the process runs
RunNames == {<<"a">>, <<"b", "b">>}

RunFunds == {Fund(5, 20)}

\* the names and funds an iterator handed to extend carries
ExtendNames == {<<"a">>, <<"b", "b">>}

ExtendFunds == {Fund(9, 9), Fund(7, 3)}

RECURSIVE SeqsUpTo(_, _)
SeqsUpTo(S, n) ==
    IF n = 0 THEN {<<>>}
    ELSE LET shorter == SeqsUpTo(S, n - 1)
         IN  shorter \cup {Append(s, x) : s \in {t \in shorter : Len(t) = n - 1}, x \in S}

ExtendInputs == SeqsUpTo(ExtendNames \X ExtendFunds, MaxExtend)

\* the characters of the files enumerated for load alone
Alphabet == {"a", COLON, "1", "-", NL}

FileContents == SeqsUpTo(Alphabet, MaxFileLen)

\* the lines that files are put together from: funds under two names, a line
\* with a fourth field, and a line with two fields
LineInputs ==
    {name \o <<COLON>> \o I32ToString(a) \o <<COLON>> \o I32ToString(g) :
        name \in RunNames, a \in {1, 0 - 2}, g \in {3}}
    \cup {<<"a", COLON, "4", COLON, "5", COLON, "a">>, <<"a", COLON, "1">>}

\* the lines one after the other, each ended by a newline
RECURSIVE JoinLines(_)
JoinLines(ls) == IF ls = <<>> THEN <<>> ELSE Head(ls) \o <<NL>> \o JoinLines(Tail(ls))

\* the files of up to MaxLines such lines, with and without the final newline
LineFiles ==
    LET whole == {JoinLines(ls) : ls \in SeqsUpTo(LineInputs, MaxLines)}
    IN  whole \cup {SubSeq(b, 1, Len(b) - 1) : b \in whole \ {<<>>}}

InRange(m) == \A n \in DOMAIN m : m[n].amount \in (0 - MaxAmount)..MaxAmount

-----------------------------------------------------------------------------
(* The state: what was called last *)

(* Besides the call, its arguments and its result, the record keeps the map
   (pre) and the fund file (prefile) as they were when the call was made. *)
Call(op, a1, a2, arg, x, iter, res, pre) ==
    [op |-> op, a1 |-> a1, a2 |-> a2, fund |-> arg, x |-> x, iter |-> iter,
     res |-> res, pre |-> pre, prefile |-> file]

\* no Fund is being tried on its own
NoTrial == [start |-> Fund(0, 0), x |-> 0, overflow_checks |-> FALSE]

NoFile == [exists |-> FALSE, bytes |-> <<>>]

EmptyFile == [exists |-> TRUE, bytes |-> <<>>]

\* FundManager::new()
New == EmptyMap

-----------------------------------------------------------------------------
(* The calls as steps on the manager in memory *)

DoAddFund(name, fund) ==
    LET r == AddFundCall(funds, name, fund)
    IN  /\ funds' = r.funds
        /\ last' = Call("add_fund", name, <<>>, fund, 0, <<>>, r.res, funds)

DoRename(old_name, new_name) ==
    LET r == RenameCall(funds, old_name, new_name)
    IN  /\ funds' = r.funds
        /\ last' = Call("rename", old_name, new_name, Fund(0, 0), 0, <<>>, r.res, funds)

DoFund(name) ==
    LET r == FundCall(funds, name)
    IN  /\ funds' = r.funds
        /\ last' = Call("fund", name, <<>>, Fund(0, 0), 0, <<>>, r.res, funds)

DoFundMut(name) ==
    LET r == FundMutCall(funds, name)
    IN  /\ funds' = r.funds
        /\ last' = Call("fund_mut", name, <<>>, Fund(0, 0), 0, <<>>, r.res, funds)

DoDeposit(name, amount) ==
    LET r == DepositCall(funds, name, amount)
    IN  /\ InRange(r.funds)
        /\ funds' = r.funds
        /\ last' = Call("deposit", name, <<>>, Fund(0, 0), amount, <<>>, r.res, funds)

DoSpend(name, amount) ==
    LET r == SpendCall(funds, name, amount)
    IN  /\ InRange(r.funds)
        /\ funds' = r.funds
        /\ last' = Call("spend", name, <<>>, Fund(0, 0), amount, <<>>, r.res, funds)

DoExtend(iter) ==
    LET r == ExtendCall(funds, iter)
    IN  /\ funds' = r.funds
        /\ last' = Call("extend", <<>>, <<>>, Fund(0, 0), 0, iter, r.res, funds)

\* load's open with truncate(true) added
LoadOpenTruncates(f) == [exists |-> TRUE, bytes |-> <<>>]

\* load's OpenOptions::new().read(true).write(true).create(true).open: the file
\* is created empty when absent and is otherwise left as it is
LoadOpen(f) == [exists |-> TRUE, bytes |-> f.bytes]

\* load: a manager is returned on success only
DoLoad ==
    LET r == LoadResult(file.bytes)
    IN  /\ file' = LoadOpen(file)
        /\ funds' = IF r.res.kind = "Ok" THEN r.funds ELSE funds
        /\ last' = Call("load", <<>>, <<>>, Fund(0, 0), 0, <<>>, r.res, funds)
        /\ UNCHANGED saved

\* save: the entries are written in whatever order the HashMap yields them
DoSave ==
    \E order \in Orders(funds) :
        /\ file' = [exists |-> TRUE, bytes |-> SaveBytes(file.bytes, funds, order)]
        /\ saved' = <<funds>>
        /\ last' = Call("save", <<>>, <<>>, Fund(0, 0), 0, <<>>, Ok, funds)
        /\ UNCHANGED funds

-----------------------------------------------------------------------------
(* Spec: a manager made by FundManager::new() and used freely in memory *)

Init ==
    /\ file = NoFile
    /\ funds = New
    /\ last = Call("new", <<>>, <<>>, Fund(0, 0), 0, <<>>, Ok, EmptyMap)
    /\ saved = <<>>
    /\ pc = "lib"
    /\ self_fund = Fund(0, 0)
    /\ trial = NoTrial

AddFund ==
    \E name \in Names, fund \in NewFunds :
        pc = "lib" /\ DoAddFund(name, fund) /\ UNCHANGED <<file, saved, pc, self_fund, trial>>

Rename ==
    \E old_name \in Names, new_name \in Names :
        pc = "lib" /\ DoRename(old_name, new_name) /\ UNCHANGED <<file, saved, pc, self_fund, trial>>

GetFund ==
    \E name \in Names :
        pc = "lib" /\ DoFund(name) /\ UNCHANGED <<file, saved, pc, self_fund, trial>>

GetFundMut ==
    \E name \in Names :
        pc = "lib" /\ DoFundMut(name) /\ UNCHANGED <<file, saved, pc, self_fund, trial>>

Deposit ==
    \E name \in Names, amount \in Amounts :
        pc = "lib" /\ DoDeposit(name, amount) /\ UNCHANGED <<file, saved, pc, self_fund, trial>>

Spend ==
    \E name \in Names, amount \in Amounts :
        pc = "lib" /\ DoSpend(name, amount) /\ UNCHANGED <<file, saved, pc, self_fund, trial>>

Extend ==
    \E iter \in ExtendInputs :
        pc = "lib" /\ DoExtend(iter) /\ UNCHANGED <<file, saved, pc, self_fund, trial>>

Next ==
    \/ AddFund
    \/ Rename
    \/ GetFund
    \/ GetFundMut
    \/ Deposit
    \/ Spend
    \/ Extend

Spec == Init /\ [][Next]_vars

-----------------------------------------------------------------------------
(* SpecRuns: process runs on one fund file, each load -> one operation -> save *)

InitRuns ==
    /\ file \in {NoFile, EmptyFile}
    /\ funds = New
    /\ last = Call("new", <<>>, <<>>, Fund(0, 0), 0, <<>>, Ok, EmptyMap)
    /\ saved = <<>>
    /\ pc = "load"
    /\ self_fund = Fund(0, 0)
    /\ trial = NoTrial

\* a run starts by loading; when load fails the run ends there
RunLoad ==
    /\ pc = "load"
    /\ DoLoad
    /\ pc' = IF last'.res.kind = "Ok" THEN "op" ELSE "load"
    /\ UNCHANGED <<self_fund, trial>>

RunAddFund ==
    \E name \in RunNames, fund \in RunFunds :
        pc = "op" /\ DoAddFund(name, fund) /\ pc' = "save" /\ UNCHANGED <<file, saved, self_fund, trial>>

RunDeposit ==
    \E name \in RunNames, amount \in Amounts :
        pc = "op" /\ DoDeposit(name, amount) /\ pc' = "save" /\ UNCHANGED <<file, saved, self_fund, trial>>

RunSpend ==
    \E name \in RunNames, amount \in Amounts :
        pc = "op" /\ DoSpend(name, amount) /\ pc' = "save" /\ UNCHANGED <<file, saved, self_fund, trial>>

RunRename ==
    \E old_name \in RunNames, new_name \in RunNames :
        pc = "op" /\ DoRename(old_name, new_name) /\ pc' = "save"
                  /\ UNCHANGED <<file, saved, self_fund, trial>>

RunSave ==
    /\ pc = "save"
    /\ DoSave
    /\ pc' = "load"
    /\ UNCHANGED <<self_fund, trial>>

NextRuns ==
    \/ RunLoad
    \/ RunAddFund
    \/ RunDeposit
    \/ RunSpend
    \/ RunRename
    \/ RunSave

SpecRuns == InitRuns /\ [][NextRuns]_vars

-----------------------------------------------------------------------------
(* SpecLoad: load applied to a file of any content *)

InitLoad ==
    /\ file \in {[exists |-> TRUE, bytes |-> b] : b \in FileContents}
    /\ funds = New
    /\ last = Call("new", <<>>, <<>>, Fund(0, 0), 0, <<>>, Ok, EmptyMap)
    /\ saved = <<>>
    /\ pc = "file"
    /\ self_fund = Fund(0, 0)
    /\ trial = NoTrial

LoadFile ==
    /\ pc = "file"
    /\ DoLoad
    /\ pc' = "loaded"
    /\ UNCHANGED <<self_fund, trial>>

NextLoad == LoadFile

SpecLoad == InitLoad /\ [][NextLoad]_vars

-----------------------------------------------------------------------------
(* Properties *)

\* the fund file holds exactly one line per fund of m, in some order
HoldsExactly(bytes, m) == \E order \in Orders(m) : bytes = Written(m, order)

\* C1: save(path) followed by load(path) succeeds and yields a manager with
\* exactly the name -> (amount, goal) pairs that were saved, whatever the file
\* held before the save.
C1_SaveThenLoad ==
    (last.op = "load" /\ saved # <<>>)
        => (last.res.kind = "Ok" /\ funds = saved[1])

\* C2: after a successful save the file's contents are exactly one line
\* name:amount:goal per fund of the manager and nothing else, whatever the
\* file held before.
C2_SaveOverwrites ==
    (last.op = "save" /\ last.res.kind = "Ok") => HoldsExactly(file.bytes, funds)

C4_RenameErrorKeepsMap ==
    (last.op = "rename" /\ last.res.kind # "Ok") => funds = last.pre

\* C5: for all old_name and new_name, distinct or not, rename fails with
\* FundNotFound{old_name} when old_name is absent, and otherwise with
\* DuplicateFund{new_name} whenever new_name is already present.
C5_RenameErrors ==
    (last.op = "rename")
        => /\ last.a1 \notin DOMAIN last.pre => last.res = FundNotFound(last.a1)
           /\ (last.a1 \in DOMAIN last.pre /\ last.a2 \in DOMAIN last.pre)
                  => last.res = DuplicateFund(last.a2)

\* C6: when old_name is present and new_name is absent, rename succeeds;
\* afterwards fund(old_name) fails with FundNotFound, fund(new_name) returns the
\* fund previously under old_name, every other entry is unchanged and the number
\* of funds is unchanged.
C6_RenameMoves ==
    (last.op = "rename" /\ last.a1 \in DOMAIN last.pre /\ last.a2 \notin DOMAIN last.pre)
        => /\ last.res = Ok
           /\ FundCall(funds, last.a1).res = FundNotFound(last.a1)
           /\ FundCall(funds, last.a2).res = Res("Ok", <<>>, <<last.pre[last.a1]>>)
           /\ \A n \in (DOMAIN last.pre) \ {last.a1} :
                  n \in DOMAIN funds /\ funds[n] = last.pre[n]
           /\ DOMAIN funds = ((DOMAIN last.pre) \ {last.a1}) \cup {last.a2}
           /\ Cardinality(DOMAIN funds) = Cardinality(DOMAIN last.pre)

\* a rename of a present name to an absent one has happened beside another fund
C6_Witness ==
    /\ last.op = "rename"
    /\ last.a1 \in DOMAIN last.pre
    /\ last.a2 \notin DOMAIN last.pre
    /\ Cardinality(DOMAIN last.pre) = 2
    /\ last.pre[last.a1].amount = 100
    /\ last.res.kind = "Ok"

\* C7: add_fund on a name already in the map returns DuplicateFund{name} and
\* leaves the whole mapping unchanged; on a name not in the map it succeeds and
\* adds exactly that one entry.
C7_AddFund ==
    (last.op = "add_fund")
        => IF last.a1 \in DOMAIN last.pre
           THEN last.res = DuplicateFund(last.a1) /\ funds = last.pre
           ELSE /\ last.res = Ok
                /\ DOMAIN funds = (DOMAIN last.pre) \cup {last.a1}
                /\ funds[last.a1] = last.fund
                /\ \A n \in DOMAIN last.pre : funds[n] = last.pre[n]

\* add_fund was called on a name whose entry differs from the fund handed in
C7_Witness ==
    /\ last.op = "add_fund"
    /\ last.a1 \in DOMAIN last.pre
    /\ last.pre[last.a1] # last.fund
    /\ last.res.kind = "DuplicateFund"

\* C8: fund and fund_mut on a name absent from the map fail with
\* FundNotFound{name} and create no entry; on a present name they return that
\* name's fund.
C8_Lookup ==
    (last.op \in {"fund", "fund_mut"})
        => /\ funds = last.pre
           /\ IF last.a1 \in DOMAIN last.pre
              THEN last.res = Res("Ok", <<>>, <<last.pre[last.a1]>>)
              ELSE last.res = FundNotFound(last.a1)

\* fund_mut was called on a name missing from a manager that holds other funds
C8_Witness ==
    /\ last.op = "fund_mut"
    /\ last.a1 \notin DOMAIN last.pre
    /\ DOMAIN last.pre # {}
    /\ last.res.kind = "FundNotFound"

\* the names an iterator carries, and the funds it carries under a name
IterNames(iter) == {iter[i][1] : i \in 1..Len(iter)}

IterFunds(iter, name) == {iter[i][2] : i \in {j \in 1..Len(iter) : iter[j][1] = name}}

\* C9: after extend every name that was already in the manager maps to the same
\* fund as before, every incoming name not in it is present with its incoming
\* fund, no other names are present, and extend reports no error.
C9_Extend ==
    (last.op = "extend")
        => /\ last.res = Ok
           /\ \A n \in DOMAIN last.pre : n \in DOMAIN funds /\ funds[n] = last.pre[n]
           /\ \A n \in IterNames(last.iter) \ DOMAIN last.pre :
                  n \in DOMAIN funds /\ funds[n] \in IterFunds(last.iter, n)
           /\ DOMAIN funds = (DOMAIN last.pre) \cup IterNames(last.iter)

\* extend was handed a name already in the manager, with another fund, and a new name
C9_Witness ==
    /\ last.op = "extend"
    /\ \E i, j \in 1..Len(last.iter) :
          /\ last.iter[i][1] \in DOMAIN last.pre
          /\ last.pre[last.iter[i][1]] # last.iter[i][2]
          /\ last.iter[j][1] \notin DOMAIN last.pre
    /\ last.res.kind = "Ok"

\* a base-10 integer as text: an optional sign, then one or more digits
IsDecimal(s) ==
    LET body == IF s # <<>> /\ Head(s) \in {"-", "+"} THEN Tail(s) ELSE s
    IN  body # <<>> /\ \A i \in 1..Len(body) : IsDigit(body[i])

\* a line with fewer than 3 colon-delimited fields, or whose amount or goal
\* field is not an integer
Malformed(line) ==
    LET fields == Split(line, COLON)
    IN  Len(fields) < 3 \/ ~IsDecimal(fields[2]) \/ ~IsDecimal(fields[3])

\* C10: load returns an error, and no manager, if any line of the file, an
\* empty line included, has fewer than 3 colon-delimited fields or an amount or
\* goal field that is not a base-10 integer.
C10_MalformedLineFails ==
    (last.op = "load" /\ \E i \in 1..Len(Lines(file.bytes)) : Malformed(Lines(file.bytes)[i]))
        => (last.res = InvalidData /\ funds = last.pre)

\* load has read a file whose first line is well formed and whose second is empty
C10_Witness ==
    /\ last.op = "load"
    /\ Len(Lines(file.bytes)) = 2
    /\ ~Malformed(Lines(file.bytes)[1])
    /\ Lines(file.bytes)[2] = <<>>
    /\ last.res = InvalidData

-----------------------------------------------------------------------------
(* SpecLines: load applied to a file put together from whole lines *)

InitLines ==
    /\ file \in {[exists |-> TRUE, bytes |-> b] : b \in LineFiles}
    /\ funds = New
    /\ last = Call("new", <<>>, <<>>, Fund(0, 0), 0, <<>>, Ok, EmptyMap)
    /\ saved = <<>>
    /\ pc = "file"
    /\ self_fund = Fund(0, 0)
    /\ trial = NoTrial

NextLines == LoadFile

SpecLines == InitLines /\ [][NextLines]_vars

\* the name, and the fund, a well-formed line states
LineName(line) == Split(line, COLON)[1]

LineStates(line) ==
    Fund(ParseI32(Split(line, COLON)[2]).val, ParseI32(Split(line, COLON)[3]).val)

\* C11: when the file holds several well-formed lines with the same name, load
\* succeeds and maps the name to the amount and goal of the last such line; the
\* number of funds is the number of distinct names.
C11_LastLineWins ==
    LET lines == Lines(file.bytes)
        n == Len(lines)
    IN  (last.op = "load" /\ \A i \in 1..n : ~Malformed(lines[i]))
            => /\ last.res = Ok
               /\ \A i \in 1..n :
                      (\A j \in (i + 1)..n : LineName(lines[j]) # LineName(lines[i]))
                          => /\ LineName(lines[i]) \in DOMAIN funds
                             /\ funds[LineName(lines[i])] = LineStates(lines[i])
               /\ Cardinality(DOMAIN funds) = Cardinality({LineName(lines[i]) : i \in 1..n})

\* load has read a file in which a name comes twice, with different amounts,
\* and another name between them
C11_Witness ==
    LET lines == Lines(file.bytes)
    IN  /\ last.op = "load"
        /\ last.res = Ok
        /\ Len(lines) = 3
        /\ LineName(lines[1]) = LineName(lines[3])
        /\ LineName(lines[2]) # LineName(lines[1])
        /\ LineStates(lines[1]) # LineStates(lines[3])
        /\ Cardinality(DOMAIN funds) = 2

\* C12: load on a file that does not exist creates it empty and returns an empty
\* manager; load on an existing empty file returns an empty manager; load never
\* changes the contents of an existing file.
C12_LoadEmptyOrAbsent ==
    (last.op = "load")
        => /\ file.exists
           /\ file.bytes = last.prefile.bytes
           /\ (~last.prefile.exists \/ last.prefile.bytes = <<>>)
                  => (last.res = Ok /\ funds = EmptyMap)

\* load has been called when the file did not exist
C12_Witness ==
    /\ last.op = "load"
    /\ ~last.prefile.exists
    /\ file = EmptyFile
    /\ last.res = Ok

-----------------------------------------------------------------------------
(* Fund on its own: display_dollars, and deposit and spend on the whole of i32 *)

\* display_dollars' loop: while amount.len() < 3, insert '0' at the front
RECURSIVE PadTo3(_)
PadTo3(s) == IF Len(s) < 3 THEN PadTo3(<<"0">> \o s) ELSE s

\* display_dollars: to_string, pad, split_at(len - 2), format!("${}.{}")
DisplayDollars(amount) ==
    LET s == PadTo3(I32ToString(amount))
        dollars == SubSeq(s, 1, Len(s) - 2)
        cents == SubSeq(s, Len(s) - 1, Len(s))
    IN  <<"$">> \o dollars \o <<".">> \o cents

\* whether a + x leaves the i32 range
AddOverflows(a, x) == (x > 0 /\ a > I32Max - x) \/ (x < 0 /\ a < I32Min - x)

\* whether a - x leaves the i32 range
SubOverflows(a, x) == (x < 0 /\ a > I32Max + x) \/ (x > 0 /\ a < I32Min + x)

\* a + x modulo 2^32 when it overflows, as a build without overflow checks computes it
WrapAdd(a, x) ==
    IF x > 0 THEN (a - I32Max - 1) + (x - I32Max - 1)
    ELSE (a + I32Max + 1) + (x + I32Max + 1)

\* a - x modulo 2^32 when it overflows
WrapSub(a, x) ==
    IF x < 0 THEN (a - I32Max - 1) - (x + I32Max + 1)
    ELSE (a + I32Max + 1) - (x - I32Max - 1)

Panic == Res("Panic", <<>>, <<>>)

(* Fund::deposit on i32: `self.amount += amount` panics on overflow in a build
   with overflow checks (the dev and test profiles) and wraps in one without
   (the release profile). *)
DepositI32(f, amount, overflow_checks) ==
    IF AddOverflows(f.amount, amount)
    THEN IF overflow_checks THEN [fund |-> f, res |-> Panic]
         ELSE [fund |-> [f EXCEPT !.amount = WrapAdd(f.amount, amount)], res |-> Ok]
    ELSE [fund |-> FundDeposit(f, amount), res |-> Ok]

\* Fund::spend on i32: `self.amount -= amount`, likewise
SpendI32(f, amount, overflow_checks) ==
    IF SubOverflows(f.amount, amount)
    THEN IF overflow_checks THEN [fund |-> f, res |-> Panic]
         ELSE [fund |-> [f EXCEPT !.amount = WrapSub(f.amount, amount)], res |-> Ok]
    ELSE [fund |-> FundSpend(f, amount), res |-> Ok]

\* the amounts a Fund on its own starts with
StartAmounts ==
    ((0 - MaxShown)..MaxShown) \cup {I32Max, I32Max - 1, I32Min, I32Min + 1, 0 - I32Max}

\* the amounts it is tried with
TrialAmounts == {1, 0 - 1, 95, I32Max, I32Min}

Trials ==
    [start : {Fund(a, 20) : a \in StartAmounts}, x : TrialAmounts, overflow_checks : BOOLEAN]

InitFund ==
    /\ trial \in Trials
    /\ self_fund = trial.start
    /\ pc = "fund"
    /\ file = NoFile
    /\ funds = New
    /\ last = Call("new", <<>>, <<>>, Fund(0, 0), 0, <<>>, Ok, EmptyMap)
    /\ saved = <<>>

\* display_dollars(self.amount), as Display for Fund calls it
ShowDollars ==
    /\ pc = "fund"
    /\ last' = Call("display_dollars", <<>>, <<>>, self_fund, self_fund.amount, <<>>,
                    Res("Ok", <<>>, <<DisplayDollars(self_fund.amount)>>), EmptyMap)
    /\ pc' = "shown"
    /\ UNCHANGED <<file, funds, saved, self_fund, trial>>

\* fund.deposit(x)
TryDeposit ==
    LET r == DepositI32(self_fund, trial.x, trial.overflow_checks)
    IN  /\ pc = "fund"
        /\ self_fund' = r.fund
        /\ last' = Call("Fund::deposit", <<>>, <<>>, self_fund, trial.x, <<>>, r.res, EmptyMap)
        /\ pc' = IF r.res.kind = "Ok" THEN "deposited" ELSE "panicked"
        /\ UNCHANGED <<file, funds, saved, trial>>

\* then fund.spend(x)
TrySpend ==
    LET r == SpendI32(self_fund, trial.x, trial.overflow_checks)
    IN  /\ pc = "deposited"
        /\ self_fund' = r.fund
        /\ last' = Call("Fund::spend", <<>>, <<>>, self_fund, trial.x, <<>>, r.res, EmptyMap)
        /\ pc' = IF r.res.kind = "Ok" THEN "spent" ELSE "panicked"
        /\ UNCHANGED <<file, funds, saved, trial>>

NextFund ==
    \/ ShowDollars
    \/ TryDeposit
    \/ TrySpend

SpecFund == InitFund /\ [][NextFund]_vars

\* an optional '-', then '$', one or more digits, '.', and exactly two digits
IsDollarForm(s) ==
    LET t == IF s # <<>> /\ Head(s) = "-" THEN Tail(s) ELSE s
        n == Len(t)
    IN  /\ n >= 5
        /\ t[1] = "$"
        /\ \A i \in 2..(n - 3) : IsDigit(t[i])
        /\ t[n - 2] = "."
        /\ IsDigit(t[n - 1])
        /\ IsDigit(t[n])

\* C13: for every 32-bit value v, display_dollars(v) is an optional leading '-',
\* then '$', at least one dollar digit, '.', and exactly two cents digits; the
\* minus sign of a negative value comes before the '$'.
C13_DollarForm ==
    (last.op = "display_dollars")
        => /\ IsDollarForm(last.res.val[1])
           /\ (last.x < 0) <=> (Head(last.res.val[1]) = "-")

NotDollarOrPoint(c) == c \notin {"$", "."}

\* C14: for all integers a, negative ones and |a| < 100 included, the last two
\* characters of display_dollars(a) are digits, and display_dollars(a) without
\* '$' and '.' parses as the base-10 integer a.
C14_DollarsReparse ==
    (last.op = "display_dollars")
        => LET s == last.res.val[1]
           IN  /\ IsDigit(s[Len(s) - 1])
               /\ IsDigit(s[Len(s)])
               /\ ParseI32(SelectSeq(s, NotDollarOrPoint)) = [ok |-> TRUE, val |-> last.x]

\* C15: for any fund with 32-bit amount A and any 32-bit x, deposit(x) followed
\* by spend(x) returns the amount to A and leaves the goal unchanged, and neither
\* call is rejected, also when the amount goes negative or the sum leaves i32.
C15_DepositThenSpend ==
    /\ pc # "panicked"
    /\ (pc \in {"deposited", "spent"}) => self_fund.goal = trial.start.goal
    /\ (pc = "spent") => self_fund.amount = trial.start.amount

-----------------------------------------------------------------------------
(* extend's unwrap, and the frame of deposit and spend *)

\* where a name first occurs in an iterator
FirstIndex(iter, name) ==
    CHOOSE i \in 1..Len(iter) :
        iter[i][1] = name /\ \A j \in 1..(i - 1) : iter[j][1] # name

\* C19: extend never panics, for any manager and any incoming sequence, one that
\* repeats a name not yet in the manager included; of such a name the first
\* occurrence is kept and the later ones are dropped.
C19_ExtendNeverPanics ==
    (last.op = "extend")
        => /\ last.res.kind # "Panic"
           /\ \A n \in IterNames(last.iter) \ DOMAIN last.pre :
                  /\ n \in DOMAIN funds
                  /\ funds[n] = last.iter[FirstIndex(last.iter, n)][2]

\* extend was handed a new name twice with two funds and kept the first, where
\* from_iter on the same sequence keeps the last
C19_Witness ==
    /\ last.op = "extend"
    /\ last.res = Ok
    /\ \E i, j \in 1..Len(last.iter) :
          /\ i < j
          /\ last.iter[i][1] = last.iter[j][1]
          /\ last.iter[i][1] \notin DOMAIN last.pre
          /\ last.iter[i][2] # last.iter[j][2]
          /\ funds[last.iter[i][1]] = last.iter[i][2]
          /\ FromIter(last.iter, EmptyMap)[last.iter[i][1]] = last.iter[j][2]

\* C20: a deposit or spend through fund_mut(name) changes only the amount of the
\* fund under name: its goal, the set of names, and the amount and goal of every
\* other fund are unchanged; a failed lookup changes nothing.
C20_DepositSpendFrame ==
    (last.op \in {"deposit", "spend"})
        => /\ DOMAIN funds = DOMAIN last.pre
           /\ \A n \in DOMAIN funds : n # last.a1 => funds[n] = last.pre[n]
           /\ (last.res = Ok)
                  => /\ last.a1 \in DOMAIN last.pre
                     /\ funds[last.a1].goal = last.pre[last.a1].goal
                     /\ funds[last.a1].amount =
                            IF last.op = "deposit" THEN last.pre[last.a1].amount + last.x
                            ELSE last.pre[last.a1].amount - last.x
           /\ (last.res # Ok) => funds = last.pre

\* an amount was deposited into one fund of a manager that holds others
C20_Witness ==
    /\ last.op = "deposit"
    /\ last.res = Ok
    /\ last.x # 0
    /\ Cardinality(DOMAIN last.pre) >= 2
    /\ funds[last.a1].amount # last.pre[last.a1].amount

-----------------------------------------------------------------------------
(* The command-line layer: a manager that is a vector of named funds, and run,
   which loads the fund file, executes one command and saves *)

\* Option: None of a string, of a name and of an i32 carry a value that is never read
None(unread) == [some |-> FALSE, val |-> unread]

NoCommand == None("")

NoName == None(<<>>)

NoNumber == None(0)

Some(v) == [some |-> TRUE, val |-> v]

\* Option::unwrap_or
UnwrapOr(opt, default) == IF opt.some THEN opt.val ELSE default

\* characters that str::trim removes
WhiteSpace == {" ", "\t", "\n", "\r"}

RECURSIVE TrimStart(_)
TrimStart(s) == IF s # <<>> /\ Head(s) \in WhiteSpace THEN TrimStart(Tail(s)) ELSE s

RECURSIVE TrimEnd(_)
TrimEnd(s) ==
    IF s # <<>> /\ s[Len(s)] \in WhiteSpace THEN TrimEnd(SubSeq(s, 1, Len(s) - 1)) ELSE s

\* str::trim
Trim(s) == TrimEnd(TrimStart(s))

\* struct Fund { name, amount, goal }
CliFund(name, amount, goal) == [name |-> name, amount |-> amount, goal |-> goal]

\* an error carrying a message
Err(msg) == Res("Err", <<>>, <<msg>>)

\* Fund::new testing name.is_empty() without trimming it
CliFundNewNoTrim(name, amount, goal) ==
    IF name = <<>>
    THEN [res |-> Err("fund name cannot be blank"), fund |-> CliFund(<<>>, 0, 0)]
    ELSE [res |-> Ok, fund |-> CliFund(name, UnwrapOr(amount, 0), UnwrapOr(goal, 0))]

\* Fund::new
CliFundNew(name, amount, goal) ==
    IF Trim(name) = <<>>
    THEN [res |-> Err("fund name cannot be blank"), fund |-> CliFund(<<>>, 0, 0)]
    ELSE [res |-> Ok, fund |-> CliFund(name, UnwrapOr(amount, 0), UnwrapOr(goal, 0))]

\* FundManager::add_fund: push(Fund::new(..)?)
CliAddFund(vec, name, amount, goal) ==
    LET r == CliFundNew(name, amount, goal)
    IN  IF r.res.kind = "Ok" THEN Outcome(Append(vec, r.fund), Ok) ELSE Outcome(vec, r.res)

\* FundManager::get_fund_by_name: the index of the first fund equal by name to
\* Fund::new(name, None, None)?
CliGetFundByName(vec, name) ==
    LET query == CliFundNew(name, NoNumber, NoNumber)
        found == {i \in 1..Len(vec) : vec[i].name = query.fund.name}
    IN  IF query.res.kind # "Ok" THEN [res |-> query.res, index |-> 0]
        ELSE IF found = {} THEN [res |-> Err("can't find a fund with that name"), index |-> 0]
        ELSE [res |-> Ok, index |-> CHOOSE i \in found : \A j \in found : i <= j]

\* funds.get_fund_by_name(name)?.spend(amount)
CliSpend(vec, name, amount) ==
    LET g == CliGetFundByName(vec, name)
    IN  IF g.res.kind = "Ok"
        THEN Outcome([vec EXCEPT ![g.index].amount = @ - amount], Ok)
        ELSE Outcome(vec, g.res)

\* funds.get_fund_by_name(name)?.deposit(amount)
CliDeposit(vec, name, amount) ==
    LET g == CliGetFundByName(vec, name)
    IN  IF g.res.kind = "Ok"
        THEN Outcome([vec EXCEPT ![g.index].amount = @ + amount], Ok)
        ELSE Outcome(vec, g.res)

\* funds.get_fund_by_name(name)?.print_details()
CliList(vec, name) == Outcome(vec, CliGetFundByName(vec, name).res)

\* the match on the command in run
CliCommand(vec, config) ==
    LET fund_name == config.fund_name
        amount == config.amount
    IN  IF ~config.command.some THEN Outcome(vec, Ok)
        ELSE IF config.command.val = "list"
        THEN IF fund_name.some THEN CliList(vec, fund_name.val) ELSE Outcome(vec, Ok)
        ELSE IF config.command.val = "new"
        THEN IF fund_name.some THEN CliAddFund(vec, fund_name.val, amount, config.goal)
             ELSE Outcome(vec, Err("can't create a new struct with no name"))
        ELSE IF config.command.val = "spend"
        THEN IF ~fund_name.some THEN Outcome(vec, Err("please supply a fund to spend from"))
             ELSE IF ~amount.some THEN Outcome(vec, Err("please supply an amount to spend"))
             ELSE CliSpend(vec, fund_name.val, amount.val)
        ELSE IF config.command.val = "deposit"
        THEN IF ~fund_name.some THEN Outcome(vec, Err("please supply a fund to deposit to"))
             ELSE IF ~amount.some THEN Outcome(vec, Err("please supply an amount to deposit"))
             ELSE CliDeposit(vec, fund_name.val, amount.val)
        ELSE Outcome(vec, Err("not a valid command"))

(* The loop of the command-line load for one line: fund_info[0], [1] and [2] are
   indexed without a check of the number of fields, so a line with fewer than
   three panics; a field that is not an i32 is an error. *)
CliLineFund(line) ==
    LET fund_info == SplitTerminator(line, COLON)
        amount == ParseI32(fund_info[2])
        goal == ParseI32(fund_info[3])
    IN  IF Len(fund_info) < 2 THEN [res |-> Panic, fund |-> CliFund(<<>>, 0, 0)]
        ELSE IF ~amount.ok THEN [res |-> Err("while parsing"), fund |-> CliFund(<<>>, 0, 0)]
        ELSE IF Len(fund_info) < 3 THEN [res |-> Panic, fund |-> CliFund(<<>>, 0, 0)]
        ELSE IF ~goal.ok THEN [res |-> Err("while parsing"), fund |-> CliFund(<<>>, 0, 0)]
        ELSE [res |-> Ok, fund |-> CliFund(fund_info[1], amount.val, goal.val)]

RECURSIVE CliLoadVec(_, _)
CliLoadVec(lines, vec) ==
    IF lines = <<>> THEN Outcome(vec, Ok)
    ELSE LET r == CliLineFund(Head(lines))
         IN  IF r.res.kind = "Ok" THEN CliLoadVec(Tail(lines), Append(vec, r.fund))
             ELSE Outcome(<<>>, r.res)

\* FundManager::load of the command-line layer
CliLoad(bytes) == CliLoadVec(Lines(bytes), <<>>)

\* what the loop of save writes: "{}:{}:{}\n" for each fund of the vector
RECURSIVE CliWritten(_)
CliWritten(vec) ==
    IF vec = <<>> THEN <<>>
    ELSE Head(vec).name \o <<COLON>> \o I32ToString(Head(vec).amount) \o <<COLON>>
             \o I32ToString(Head(vec).goal) \o <<NL>> \o CliWritten(Tail(vec))

\* FundManager::save of the command-line layer: write(true).create(true), no truncate
CliSave(f, vec) ==
    LET w == CliWritten(vec)
    IN  [exists |-> TRUE, bytes |-> w \o SubSeq(f.bytes, Len(w) + 1, Len(f.bytes))]

\* a run that saves the manager before it returns the error of the command
RunFinishAlwaysSaves(f, cmd) == CliSave(f, cmd.funds)

\* how run ends: an error of the command returns before save is reached
RunFinish(f, cmd) == IF cmd.res.kind = "Ok" THEN CliSave(f, cmd.funds) ELSE f

\* the names given on the command line: two names, and two blank ones
CliNames == {<<"a">>, <<" ", "a">>, <<" ">>, <<>>}

\* struct Config without its paths
Config(command, fund_name, amount, goal) ==
    [command |-> command, fund_name |-> fund_name, amount |-> amount, goal |-> goal]

FundNames == {NoName} \cup {Some(n) : n \in CliNames}

(* The Configs that Config::new builds from the command line (a name for every
   subcommand, an amount for new, deposit and spend, a goal for new), and those
   with no command and with a command run does not know. *)
Configs ==
    {Config(NoCommand, NoName, NoNumber, NoNumber),
     Config(Some("transfer"), NoName, NoNumber, NoNumber)}
    \cup {Config(Some("list"), n, NoNumber, NoNumber) : n \in FundNames}
    \cup {Config(Some("new"), n, NoNumber, NoNumber) : n \in FundNames}
    \cup {Config(Some("new"), n, Some(95), Some(20)) : n \in FundNames}
    \cup {Config(Some(c), n, a, NoNumber) :
              c \in {"spend", "deposit"}, n \in FundNames, a \in {NoNumber, Some(95)}}

\* a fund file written by hand, its last line without a newline
HandWritten == [exists |-> TRUE, bytes |-> <<"a", COLON, "9", "5", COLON, "2", "0">>]

CliInRange(vec) ==
    /\ Len(vec) <= MaxFunds
    /\ \A i \in 1..Len(vec) : vec[i].amount \in (0 - MaxAmount)..MaxAmount

(* run as one step: load, the command, save. funds is the manager the run ended
   with (empty when load failed); last keeps the Config, the stage the run ended
   in, what it returned and the manager as loaded. *)
DoRun(ld, config) ==
    LET opened == LoadOpen(file)
        cmd == CliCommand(ld.funds, config)
    IN  IF ld.res.kind # "Ok"
        THEN /\ file' = opened
             /\ funds' = <<>>
             /\ last' = Call("run", config, "load", Fund(0, 0), 0, <<>>, ld.res, <<>>)
        ELSE /\ CliInRange(cmd.funds)
             /\ file' = RunFinish(opened, cmd)
             /\ funds' = cmd.funds
             /\ last' = Call("run", config, IF cmd.res.kind = "Ok" THEN "save" ELSE "command",
                             Fund(0, 0), 0, <<>>, cmd.res, ld.funds)

InitCli ==
    /\ file \in {NoFile, HandWritten}
    /\ funds = <<>>
    /\ last = Call("new", <<>>, <<>>, Fund(0, 0), 0, <<>>, Ok, <<>>)
    /\ saved = <<>>
    /\ pc = "cli"
    /\ self_fund = Fund(0, 0)
    /\ trial = NoTrial

Run ==
    LET ld == CliLoad(file.bytes)
    IN  \E config \in Configs :
            pc = "cli" /\ DoRun(ld, config) /\ UNCHANGED <<saved, pc, self_fund, trial>>

NextCli == Run

SpecCli == InitCli /\ [][NextCli]_vars

\* a name that is empty or only whitespace
Blank(name) == \A i \in 1..Len(name) : name[i] \in WhiteSpace

\* C16: in the command-line layer Fund::new fails for every name that is empty
\* or only whitespace, and otherwise gives a fund with that name whose amount and
\* goal are 0 when omitted; so 'new' never adds a blank-named fund to the manager.
C16_BlankNameRejected ==
    (last.op = "run" /\ last.a2 # "load" /\ last.a1.command = Some("new")
                    /\ last.a1.fund_name.some)
        => LET name == last.a1.fund_name.val
               amount == IF last.a1.amount.some THEN last.a1.amount.val ELSE 0
               goal == IF last.a1.goal.some THEN last.a1.goal.val ELSE 0
           IN  /\ Blank(name)
                      => /\ last.res = Err("fund name cannot be blank")
                         /\ funds = last.pre
               /\ ~Blank(name)
                      => /\ last.res = Ok
                         /\ funds = Append(last.pre, CliFund(name, amount, goal))
               /\ \A i \in 1..Len(funds) :
                      Blank(funds[i].name) => i <= Len(last.pre) /\ funds[i] = last.pre[i]

\* 'new' with a name of one space was rejected by a manager that holds a fund
\* created under an untrimmed name with amount and goal omitted
C16_Witness ==
    /\ last.op = "run"
    /\ last.a1.command = Some("new")
    /\ last.a1.fund_name = Some(<<" ">>)
    /\ last.res = Err("fund name cannot be blank")
    /\ \E i \in 1..Len(funds) : funds[i] = CliFund(<<" ", "a">>, 0, 0)

\* the names of the funds a fund file holds, line by line
FileNames(bytes) ==
    LET ls == Lines(bytes) IN [i \in 1..Len(ls) |-> Split(ls[i], COLON)[1]]

NoRepeat(seq) == \A i, j \in 1..Len(seq) : seq[i] = seq[j] => i = j

\* C17: in the run cycle of the command-line layer 'new' on a name that already
\* exists fails, and after any sequence of runs neither the manager nor the
\* saved fund file holds two funds with the same name.
C17_NoDuplicateNames ==
    (last.op = "run")
        => /\ NoRepeat([i \in 1..Len(funds) |-> funds[i].name])
           /\ NoRepeat(FileNames(file.bytes))
           /\ (/\ last.a2 # "load"
               /\ last.a1.command = Some("new")
               /\ last.a1.fund_name.some
               /\ \E i \in 1..Len(last.pre) : last.pre[i].name = last.a1.fund_name.val)
                  => last.res.kind # "Ok"

\* C18: when the command run executes fails after a successful load, run returns
\* the error without calling save: the fund file holds what it held before.
C18_ErrorSkipsSave ==
    (last.op = "run" /\ last.a2 = "command")
        => /\ last.res.kind = "Err"
           /\ file.exists
           /\ file.bytes = last.prefile.bytes
           /\ funds = last.pre

\* a command failed on a manager loaded from a file that save would have rewritten
C18_Witness ==
    /\ last.op = "run"
    /\ last.a2 = "command"
    /\ last.res = Err("can't find a fund with that name")
    /\ last.pre # <<>>
    /\ CliSave(last.prefile, last.pre).bytes # last.prefile.bytes

====
